---- MODULE Spec2Model ----
(***************************************************************************)
(* A model of src/main.cpp: a software wireframe renderer.  The mesh       *)
(* loader, the rasterizer (pixel, line, triangle), the render pass and the *)
(* event loop of main are translated from the code.                        *)
(*                                                                         *)
(* Numbers.  The camera fields are floats in the code.  Angles and the     *)
(* distance are kept here as integers in thousandths (radians, units), so  *)
(* 3.0f is 3000 and 0.2f is 200; the elapsed time of a frame is in         *)
(* milliseconds, so deltaTime * 1.0f is the same number in thousandths.    *)
(* Screen-space vertex coordinates are floats that line() rounds to the    *)
(* nearest integer; they are kept in half pixels, so that the rounding is  *)
(* a real conversion (Round).                                              *)
(***************************************************************************)
EXTENDS Integers, Sequences, FiniteSets, TLC

VARIABLES
    pc,             \* position of main: "init", "check", "load", "first", "loop", "poll", "done"
    sdl,            \* what the display subsystem will answer to init()
    disk,           \* what is at "model.obj": File(lines) or NoFile
    window,         \* window != nullptr
    renderer,       \* renderer != nullptr
    currentColor,
    framebuffer,    \* [size, px]: px maps the cells that differ from Color() to their colour
    cameraAngleY,
    cameraAngleX,
    cameraDistance,
    autoRotate,
    vertices,
    faces,
    running,
    exitCode,       \* return value of main, None while main runs
    loaded,         \* history: what loadOBJ returned: "ok", "failed", None before the call
    rendered,       \* history: the last step executed a render pass
    presented,      \* history: the last step handed the frame buffer to the display
    transformedVertices, \* history: the local transformedVertices of the last render pass
    drawn,          \* history: segments <<i, j>> of transformedVertices drawn by the last render pass
    oob,            \* history: some container was indexed outside its size (undefined behaviour)
    call            \* the pure-function specifications: the call under study and its result

progVars == <<pc, sdl, disk, window, renderer, currentColor, framebuffer, cameraAngleY,
              cameraAngleX, cameraDistance, autoRotate, vertices, faces, running,
              exitCode, loaded, rendered, presented, transformedVertices, drawn, oob>>

vars == <<progVars, call>>

None == "none"
\* What is at a path: no file that opens, or a file with its lines.
NoFile == [exists |-> FALSE, lines |-> <<>>]

File(lines) == [exists |-> TRUE, lines |-> lines]

\* ------------------------------------------------------------------ bounds

\* Integer coordinates handed to line() range over -MaxCoord .. MaxCoord + 1.
MaxCoord == 2

\* The camera stays within MaxMoves key steps of the reset view: the steps of yaw
\* and pitch (0.1 rad each) and of the distance (0.2 each) are added up.  SpecCamera
\* counts the angles only and lets the distance range over all of [1.0, 10.0].
MaxMoves == 1

\* The files loadOBJ is studied on have at most MaxLines lines.
MaxLines == 2

\* The meshes render is studied on have NumVerts vertices, and faces of up to
\* MaxRefs references, each from the first vertex to one past the last.
NumVerts == 4

MaxRefs == 5

\* A coordinate far off the screen, in half pixels: 900000000 pixels.
FarCoord == 1800000000

\* The pixel calls followed in a walk of line() after an int overflow.
MaxCalls == 6

\* ------------------------------------------------------------ the constants

SCREEN_WIDTH == 800
SCREEN_HEIGHT == 600

Abs(n) == IF n < 0 THEN -n ELSE n
Max(a, b) == IF a >= b THEN a ELSE b

\* ---------------------------------------------------------------- Color

Color(red, green, blue) == [r |-> red, g |-> green, b |-> blue, a |-> 255]

Black == Color(0, 0, 0)
Red == Color(255, 0, 0)
Green == Color(0, 255, 0)
Blue == Color(0, 0, 255)
Yellow == Color(255, 255, 0)
White == Color(255, 255, 255)
Cyan == Color(0, 255, 255)
Magenta == Color(255, 0, 255)

\* ------------------------------------------------------------ frame buffer

\* The value of cell i of a buffer: a cell px does not list holds Color().
Cell(fb, i) == IF i \in DOMAIN fb.px THEN fb.px[i] ELSE Black

\* vector::operator[] = c at index i (i < size is the caller's business).
Store(fb, i, c) ==
    IF c = Black
    THEN [fb EXCEPT !.px = [j \in DOMAIN fb.px \ {i} |-> fb.px[j]]]
    ELSE [fb EXCEPT !.px = [j \in DOMAIN fb.px \cup {i} |-> IF j = i THEN c ELSE fb.px[j]]]

EmptyBuffer == [size |-> 0, px |-> <<>>]

initFramebuffer(fb) == [size |-> SCREEN_WIDTH * SCREEN_HEIGHT, px |-> fb.px]

\* clear() that leaves the buffer as it is.
clearNothing(fb) == fb

clear(fb) == [fb EXCEPT !.px = <<>>]

\* InBounds with the upper edges let in (<= for <).
InBoundsInclusive(x, y) == x >= 0 /\ x <= SCREEN_WIDTH /\ y >= 0 /\ y <= SCREEN_HEIGHT

InBounds(x, y) == x >= 0 /\ x < SCREEN_WIDTH /\ y >= 0 /\ y < SCREEN_HEIGHT

pixel(fb, col, x, y) ==
    IF InBounds(x, y) THEN Store(fb, y * SCREEN_WIDTH + x, col) ELSE fb

\* Whether pixel(x, y) indexes the buffer outside its size.
pixelOob(fb, x, y) == InBounds(x, y) /\ y * SCREEN_WIDTH + x >= fb.size

\* ------------------------------------------------------------------ line

\* std::round of a coordinate given in half pixels: halves go away from zero.
Round(h) == IF h >= 0 THEN (h + 1) \div 2 ELSE -((1 - h) \div 2)

\* The range of int.
INT_MAX == 2147483647

INT_MIN == -INT_MAX - 1

\* Whether a + b, on int, overflows: undefined behaviour.
AddOverflows(a, b) == (b > 0 /\ a > INT_MAX - b) \/ (b < 0 /\ a < INT_MIN - b)

\* a + b on int; on overflow, the value a build that wraps produces.
Add32(a, b) ==
    IF b > 0 /\ a > INT_MAX - b THEN (a - INT_MAX - 1) + (b - INT_MAX - 1)
    ELSE IF b < 0 /\ a < INT_MIN - b THEN (a + INT_MAX + 1) + (b + INT_MAX + 1)
    ELSE a + b

\* The locals of line() after its prologue, for endpoints whose rounding and whose
\* differences are in the range of int.
LineStart(start, end) ==
    LET x1 == Round(start.x)
        y1 == Round(start.y)
        x2 == Round(end.x)
        y2 == Round(end.y)
        dx == Abs(x2 - x1)
        dy == Abs(y2 - y1)
    IN [x1 |-> x1, y1 |-> y1, x2 |-> x2, y2 |-> y2, dx |-> dx, dy |-> dy,
        sx |-> IF x1 < x2 THEN 1 ELSE -1,
        sy |-> IF y1 < y2 THEN 1 ELSE -1,
        err |-> dx - dy,
        ub |-> FALSE]

\* The loop's exit test, taken after pixel(x1, y1).
LineAtEnd(l) == l.x1 = l.x2 /\ l.y1 = l.y2

\* The rest of one iteration of the loop, after the exit test failed, with the
\* values of a build whose int wraps; ub records that an operation overflowed.
LineIter(l) ==
    LET e2 == Add32(l.err, l.err)
        l1 == IF e2 > -l.dy
              THEN [l EXCEPT !.err = Add32(l.err, -l.dy), !.x1 = Add32(l.x1, l.sx),
                             !.ub = l.ub \/ AddOverflows(l.err, l.err)
                                         \/ AddOverflows(l.err, -l.dy)
                                         \/ AddOverflows(l.x1, l.sx)]
              ELSE [l EXCEPT !.ub = l.ub \/ AddOverflows(l.err, l.err)]
    IN IF e2 < l.dx
       THEN [l1 EXCEPT !.err = Add32(l1.err, l.dx), !.y1 = Add32(l1.y1, l.sy),
                       !.ub = l1.ub \/ AddOverflows(l1.err, l.dx)
                                    \/ AddOverflows(l1.y1, l.sy)]
       ELSE l1

\* The pixel calls of the loop from locals l on, in order.
RECURSIVE LineCalls(_)
LineCalls(l) ==
    IF LineAtEnd(l) THEN << <<l.x1, l.y1>> >>
    ELSE << <<l.x1, l.y1>> >> \o LineCalls(LineIter(l))

RECURSIVE PixelAll(_, _, _)
PixelAll(fb, col, calls) ==
    IF calls = <<>> THEN fb
    ELSE PixelAll(pixel(fb, col, Head(calls)[1], Head(calls)[2]), col, Tail(calls))

\* line() on the drawing state g = [fb, drawn, oob]; a Vec3 carries, beside its
\* coordinates, the index id it has in transformedVertices (history only).
line(g, col, start, end) ==
    LET calls == LineCalls(LineStart(start, end))
    IN [fb |-> PixelAll(g.fb, col, calls),
        drawn |-> Append(g.drawn, <<start.id, end.id>>),
        oob |-> g.oob \/ \E k \in 1..Len(calls) : pixelOob(g.fb, calls[k][1], calls[k][2])]

\* triangle() without its closing edge.
triangleOpen(g, col, A, B, C) == line(line(g, col, A, B), col, B, C)

triangle(g, col, A, B, C) == line(line(line(g, col, A, B), col, B, C), col, C, A)

\* --------------------------------------------------------------- loadOBJ
(***************************************************************************)
(* model.obj is a sequence of lines; a line is its whitespace-separated    *)
(* words, [prefix, args]: prefix is the first word, args the words after   *)
(* it.  The words of a "v" line are numbers (kept as integers); the words  *)
(* of an "f" line are character sequences such as <<"1", "/", "2">>.       *)
(***************************************************************************)

Digits == <<"0", "1", "2", "3", "4", "5", "6", "7", "8", "9">>

IsDigit(c) == \E d \in 1..Len(Digits) : Digits[d] = c

DigitVal(c) == (CHOOSE d \in 1..Len(Digits) : Digits[d] = c) - 1

\* std::replace(vertexStr.begin(), vertexStr.end(), '/', ' ')
ReplaceSlash(str) == [i \in 1..Len(str) |-> IF str[i] = "/" THEN " " ELSE str[i]]

RECURSIVE SkipWs(_)
SkipWs(buf) == IF buf # <<>> /\ Head(buf) = " " THEN SkipWs(Tail(buf)) ELSE buf

\* The decimal digits buf starts with, read into acc; [val, rest].
RECURSIVE ReadDigits(_, _)
ReadDigits(buf, acc) ==
    IF buf # <<>> /\ IsDigit(Head(buf))
    THEN ReadDigits(Tail(buf), 10 * acc + DigitVal(Head(buf)))
    ELSE [val |-> acc, rest |-> buf]

\* istream >> int on the stream st = [buf, fail]: skips white space, reads the
\* digits; with none to read (or the stream already failed) the stream fails and
\* the target is set to 0.
ExtractInt(st) ==
    LET buf == SkipWs(st.buf)
        got == ReadDigits(buf, 0)
    IN IF st.fail \/ buf = <<>> \/ ~IsDigit(Head(buf))
       THEN [st |-> [buf |-> buf, fail |-> TRUE], ok |-> FALSE, val |-> 0]
       ELSE [st |-> [buf |-> got.rest, fail |-> FALSE], ok |-> TRUE, val |-> got.val]

\* ParseRef without the conversion of the position index to 0-based.
ParseRefOneBased(vertexStr) ==
    LET e0 == ExtractInt([buf |-> ReplaceSlash(vertexStr), fail |-> FALSE])
        e1 == ExtractInt(e0.st)
        e2 == ExtractInt(e1.st)
    IN IF e1.ok
       THEN IF e2.ok THEN <<e0.val, e1.val - 1, e2.val - 1>> ELSE <<e0.val, e1.val - 1, 0>>
       ELSE <<e0.val, 0, 0>>

\* The body of the per-word loop of an "f" line: the std::array<int, 3> pushed.
ParseRef(vertexStr) ==
    LET e0 == ExtractInt([buf |-> ReplaceSlash(vertexStr), fail |-> FALSE])
        e1 == ExtractInt(e0.st)
        e2 == ExtractInt(e1.st)
        i0 == e0.val - 1
    IN IF e1.ok
       THEN IF e2.ok THEN <<i0, e1.val - 1, e2.val - 1>> ELSE <<i0, e1.val - 1, 0>>
       ELSE <<i0, 0, 0>>

\* iss >> vertex.x >> vertex.y >> vertex.z: a coordinate the line lacks is 0.
ParseVertex(args) ==
    [x |-> IF Len(args) >= 1 THEN args[1] ELSE 0,
     y |-> IF Len(args) >= 2 THEN args[2] ELSE 0,
     z |-> IF Len(args) >= 3 THEN args[3] ELSE 0]

ParseFace(args) == [k \in 1..Len(args) |-> ParseRef(args[k])]

\* One iteration of the getline loop on the outputs m = [vertices, faces].
LoadLine(m, ln) ==
    IF ln.prefix = "v" THEN [m EXCEPT !.vertices = Append(@, ParseVertex(ln.args))]
    ELSE IF ln.prefix = "f" THEN [m EXCEPT !.faces = Append(@, ParseFace(ln.args))]
    ELSE m

RECURSIVE LoadLines(_, _)
LoadLines(m, lines) ==
    IF lines = <<>> THEN m ELSE LoadLines(LoadLine(m, Head(lines)), Tail(lines))

\* loadOBJ(path, out_vertices, out_faces) with `file` what is at path.
loadOBJ(file, out_vertices, out_faces) ==
    IF ~file.exists
    THEN [ok |-> FALSE, vertices |-> out_vertices, faces |-> out_faces]
    ELSE LET m == LoadLines([vertices |-> out_vertices, faces |-> out_faces], file.lines)
         IN [ok |-> TRUE, vertices |-> m.vertices, faces |-> m.faces]

\* ---------------------------------------------------------------- render

\* The comparison made on signed integers: a negative index passes.
GeSizeSigned(idx, size) == idx >= size

\* idx[0] >= transformedVertices.size(): the int is converted to size_t for the
\* comparison, and a negative one becomes a value above every size.
GeSize(idx, size) == idx < 0 \/ idx >= size

\* The validity loop over the references of a face.
ValidFace(face, tv) == \A k \in 1..Len(face) : ~GeSize(face[k][1], Len(tv))

\* transformedVertices[i]; outside the vector the read is undefined (any value).
At(tv, i) == IF i >= 0 /\ i < Len(tv) THEN tv[i + 1] ELSE [x |-> 0, y |-> 0, id |-> i]

ReadOob(tv, i) == i < 0 \/ i >= Len(tv)

\* RenderFace drawing the second triangle for every face of 4 or more references.
RenderFaceFourOrMore(g, col, face, tv) ==
    IF Len(face) >= 3
    THEN IF ~ValidFace(face, tv) THEN g
         ELSE LET g1 == triangle(g, col, At(tv, face[1][1]), At(tv, face[2][1]),
                                 At(tv, face[3][1]))
              IN IF Len(face) >= 4
                 THEN triangle(g1, col, At(tv, face[1][1]), At(tv, face[3][1]),
                               At(tv, face[4][1]))
                 ELSE g1
    ELSE g

\* The body of the loop over faces, on the drawing state g.
RenderFace(g, col, face, tv) ==
    IF Len(face) >= 3
    THEN IF ~ValidFace(face, tv) THEN g
         ELSE LET i1 == face[1][1]
                  i2 == face[2][1]
                  i3 == face[3][1]
                  g1 == triangle([g EXCEPT !.oob = @ \/ ReadOob(tv, i1) \/ ReadOob(tv, i2)
                                                     \/ ReadOob(tv, i3)],
                                 col, At(tv, i1), At(tv, i2), At(tv, i3))
              IN IF Len(face) = 4
                 THEN triangle([g1 EXCEPT !.oob = @ \/ ReadOob(tv, face[4][1])],
                               col, At(tv, i1), At(tv, i3), At(tv, face[4][1]))
                 ELSE g1
    ELSE g

RECURSIVE RenderFaces(_, _, _, _)
RenderFaces(g, col, fs, tv) ==
    IF fs = <<>> THEN g ELSE RenderFaces(RenderFace(g, col, Head(fs), tv), col, Tail(fs), tv)

\* The screen-space points a vertex can be transformed to, in half pixels.  The
\* model-view-projection product and the viewport mapping are float arithmetic with
\* sin, cos and tan of the camera state; the model takes the result of each vertex
\* from this set instead of computing it.
ScreenPts == { [x |-> -3, y |-> 1], [x |-> 3, y |-> 4] }

\* The values the loop over vertices can leave in transformedVertices: one
\* point per vertex, in order.
Transformed(vs) ==
    { [i \in 1..Len(vs) |-> [x |-> f[i].x, y |-> f[i].y, id |-> i - 1]] :
        f \in [1..Len(vs) -> ScreenPts] }

\* render(vertices, faces) with tv the transformed vertices: clear, then the faces.
render(fb, col, fs, tv) ==
    RenderFaces([fb |-> clear(fb), drawn |-> <<>>, oob |-> FALSE], col, fs, tv)

\* ------------------------------------------------------------------ main

\* The answers of the display subsystem to init().
SdlOutcomes == {"ok", "noinit", "nowindow", "norenderer"}

\* init(): each failure returns at once; only full success allocates the buffer.
init ==
    /\ pc = "init"
    /\ window' = (sdl \in {"ok", "norenderer"})
    /\ renderer' = (sdl = "ok")
    /\ framebuffer' = IF sdl = "ok" THEN initFramebuffer(framebuffer) ELSE framebuffer
    /\ pc' = "check"
    /\ rendered' = FALSE
    /\ presented' = FALSE
    /\ UNCHANGED <<sdl, disk, currentColor, cameraAngleY, cameraAngleX, cameraDistance,
                   autoRotate, vertices, faces, running, exitCode, loaded,
                   transformedVertices, drawn, oob, call>>

\* MainCheck with "and" for "or": main goes on with a window and no renderer.
MainCheckBoth ==
    /\ pc = "check"
    /\ IF ~window /\ ~renderer
       THEN pc' = "done" /\ exitCode' = -1
       ELSE pc' = "load" /\ exitCode' = exitCode
    /\ rendered' = FALSE
    /\ presented' = FALSE
    /\ UNCHANGED <<sdl, disk, window, renderer, currentColor, framebuffer, cameraAngleY,
                   cameraAngleX, cameraDistance, autoRotate, vertices, faces, running,
                   loaded, transformedVertices, drawn, oob, call>>

\* if (window == nullptr || renderer == nullptr) return -1;
MainCheck ==
    /\ pc = "check"
    /\ IF ~window \/ ~renderer
       THEN pc' = "done" /\ exitCode' = -1
       ELSE pc' = "load" /\ exitCode' = exitCode
    /\ rendered' = FALSE
    /\ presented' = FALSE
    /\ UNCHANGED <<sdl, disk, window, renderer, currentColor, framebuffer, cameraAngleY,
                   cameraAngleX, cameraDistance, autoRotate, vertices, faces, running,
                   loaded, transformedVertices, drawn, oob, call>>

\* if (!loadOBJ("model.obj", vertices, faces)) return -1;
MainLoad ==
    /\ pc = "load"
    /\ LET r == loadOBJ(disk, vertices, faces)
       IN /\ vertices' = r.vertices
          /\ faces' = r.faces
          /\ loaded' = IF r.ok THEN "ok" ELSE "failed"
          /\ IF r.ok
             THEN pc' = "first" /\ exitCode' = exitCode
             ELSE pc' = "done" /\ exitCode' = -1
    /\ rendered' = FALSE
    /\ presented' = FALSE
    /\ UNCHANGED <<sdl, disk, window, renderer, currentColor, framebuffer, cameraAngleY,
                   cameraAngleX, cameraDistance, autoRotate, running,
                   transformedVertices, drawn, oob, call>>

\* render(vertices, faces); renderBuffer(renderer); with the colour the step leaves.
\* The transform is a function of the camera and the vertices: a pass with the
\* camera of the last pass (sameCamera) computes the same transformedVertices.
RenderPass(col, sameCamera) ==
    \E tv \in (IF sameCamera /\ Len(transformedVertices) = Len(vertices)
               THEN {transformedVertices}
               ELSE Transformed(vertices)) :
        /\ \E g \in {render(framebuffer, col, faces, tv)} :
              /\ framebuffer' = g.fb
              /\ drawn' = g.drawn
              /\ oob' = (oob \/ g.oob)
        /\ transformedVertices' = tv
        /\ rendered' = TRUE
        /\ presented' = TRUE

NoRenderPass ==
    /\ rendered' = FALSE
    /\ presented' = FALSE
    /\ UNCHANGED <<framebuffer, drawn, oob, transformedVertices>>

\* The initial view, setColor(yellow), the initial render and the loop's locals.
MainFirstRender ==
    /\ pc = "first"
    /\ cameraAngleY' = 785
    /\ cameraAngleX' = 350
    /\ cameraDistance' = 3000
    /\ currentColor' = Yellow
    /\ RenderPass(Yellow, FALSE)
    /\ running' = TRUE
    /\ pc' = "loop"
    /\ UNCHANGED <<sdl, disk, window, renderer, autoRotate, vertices, faces, exitCode,
                   loaded, call>>

\* The frame times SDL_GetTicks can measure between two iterations, in ms.
DeltaTimes == {0, 100}

\* The views the model follows (zoomFree: whatever the distance).
CamOk(angleY, angleX, distance, zoomFree) ==
    Abs(angleY - 785) + Abs(angleX - 350)
        + (IF zoomFree THEN 0 ELSE Abs(distance - 3000) \div 2) <= MaxMoves * 100

\* The head of an iteration of while (running): the auto-rotation step.
LoopTop(zoomFree) ==
    /\ pc = "loop"
    /\ running
    /\ \E deltaTime \in DeltaTimes :
         IF autoRotate
         THEN /\ CamOk(cameraAngleY + deltaTime, cameraAngleX, cameraDistance, zoomFree)
              /\ cameraAngleY' = cameraAngleY + deltaTime
              /\ RenderPass(currentColor, deltaTime = 0)
         ELSE /\ cameraAngleY' = cameraAngleY
              /\ NoRenderPass
    /\ pc' = "poll"
    /\ UNCHANGED <<sdl, disk, window, renderer, currentColor, cameraAngleX, cameraDistance,
                   autoRotate, vertices, faces, running, exitCode, loaded, call>>

\* while (running) fails: cleanup and return 0.
LoopExit ==
    /\ pc = "loop"
    /\ ~running
    /\ window' = FALSE
    /\ renderer' = FALSE
    /\ exitCode' = 0
    /\ pc' = "done"
    /\ NoRenderPass
    /\ UNCHANGED <<sdl, disk, currentColor, cameraAngleY, cameraAngleX, cameraDistance,
                   autoRotate, vertices, faces, running, loaded, call>>

\* SDL_PollEvent returned 0: SDL_Delay(16) and back to the loop test.
PollEmpty ==
    /\ pc = "poll"
    /\ pc' = "loop"
    /\ NoRenderPass
    /\ UNCHANGED <<sdl, disk, window, renderer, currentColor, cameraAngleY, cameraAngleX,
                   cameraDistance, autoRotate, vertices, faces, running, exitCode, loaded,
                   call>>

\* PollQuit without the test for SDL_QUIT: the event changes nothing.
PollQuitIgnored ==
    /\ pc = "poll"
    /\ rendered' = FALSE
    /\ presented' = FALSE
    /\ UNCHANGED <<pc, sdl, disk, window, renderer, currentColor, framebuffer, cameraAngleY,
                   cameraAngleX, cameraDistance, autoRotate, vertices, faces, running,
                   exitCode, loaded, transformedVertices, drawn, oob, call>>

\* SDL_PollEvent returned an SDL_QUIT event.
PollQuit ==
    /\ pc = "poll"
    /\ running' = FALSE
    /\ NoRenderPass
    /\ UNCHANGED <<pc, sdl, disk, window, renderer, currentColor, cameraAngleY,
                   cameraAngleX, cameraDistance, autoRotate, vertices, faces, exitCode,
                   loaded, call>>

\* SDL_PollEvent returned an event that is neither SDL_QUIT nor SDL_KEYDOWN.
PollOther ==
    /\ pc = "poll"
    /\ NoRenderPass
    /\ UNCHANGED <<pc, sdl, disk, window, renderer, currentColor, cameraAngleY,
                   cameraAngleX, cameraDistance, autoRotate, vertices, faces, running,
                   exitCode, loaded, call>>

\* The key symbols of the switch, and one it has no case for.
Keys == {"LEFT", "RIGHT", "UP", "DOWN", "w", "s", "a", "r",
         "1", "2", "3", "4", "5", "6", "7", "ESCAPE", "x"}

\* The globals the switch reads and writes, with the local needsRender.
Globals ==
    [cameraAngleY |-> cameraAngleY, cameraAngleX |-> cameraAngleX,
     cameraDistance |-> cameraDistance, autoRotate |-> autoRotate,
     currentColor |-> currentColor, running |-> running, needsRender |-> TRUE]

\* Zoom-in without the clamp.
ZoomInNoClamp(d) == d - 200

\* case SDLK_w
ZoomIn(d) == IF d - 200 < 1000 THEN 1000 ELSE d - 200

\* case SDLK_s
ZoomOut(d) == IF d + 200 > 10000 THEN 10000 ELSE d + 200

\* switch (event.key.keysym.sym) on the globals G.
KeySwitch(sym, G) ==
    CASE sym = "LEFT" -> [G EXCEPT !.cameraAngleY = @ - 100]
      [] sym = "RIGHT" -> [G EXCEPT !.cameraAngleY = @ + 100]
      [] sym = "UP" -> [G EXCEPT !.cameraAngleX = @ - 100]
      [] sym = "DOWN" -> [G EXCEPT !.cameraAngleX = @ + 100]
      [] sym = "w" -> [G EXCEPT !.cameraDistance = ZoomIn(@)]
      [] sym = "s" -> [G EXCEPT !.cameraDistance = ZoomOut(@)]
      [] sym = "a" -> [G EXCEPT !.autoRotate = ~@]
      [] sym = "r" -> [G EXCEPT !.cameraAngleY = 785, !.cameraAngleX = 350,
                                !.cameraDistance = 3000, !.autoRotate = FALSE]
      [] sym = "1" -> [G EXCEPT !.currentColor = Red]
      [] sym = "2" -> [G EXCEPT !.currentColor = Green]
      [] sym = "3" -> [G EXCEPT !.currentColor = Blue]
      [] sym = "4" -> [G EXCEPT !.currentColor = Yellow]
      [] sym = "5" -> [G EXCEPT !.currentColor = White]
      [] sym = "6" -> [G EXCEPT !.currentColor = Cyan]
      [] sym = "7" -> [G EXCEPT !.currentColor = Magenta]
      [] sym = "ESCAPE" -> [G EXCEPT !.running = FALSE, !.needsRender = FALSE]
      [] OTHER -> [G EXCEPT !.needsRender = FALSE]

\* SDL_PollEvent returned an SDL_KEYDOWN event for sym.
KeyDown(sym, zoomFree) ==
    /\ pc = "poll"
    /\ LET G == KeySwitch(sym, Globals)
       IN /\ CamOk(G.cameraAngleY, G.cameraAngleX, G.cameraDistance, zoomFree)
          /\ cameraAngleY' = G.cameraAngleY
          /\ cameraAngleX' = G.cameraAngleX
          /\ cameraDistance' = G.cameraDistance
          /\ autoRotate' = G.autoRotate
          /\ currentColor' = G.currentColor
          /\ running' = G.running
          /\ IF G.needsRender
             THEN RenderPass(G.currentColor,
                             /\ G.cameraAngleY = cameraAngleY
                             /\ G.cameraAngleX = cameraAngleX
                             /\ G.cameraDistance = cameraDistance)
             ELSE NoRenderPass
    /\ UNCHANGED <<pc, sdl, disk, window, renderer, vertices, faces, exitCode, loaded, call>>

PollKeyDown == \E sym \in Keys : KeyDown(sym, FALSE)

AutoRotate == LoopTop(FALSE)

\* ------------------------------------------------------ the files on disk

V(x, y, z) == [prefix |-> "v", args |-> <<x, y, z>>]

\* a comment, three vertices, f 3/1 1/1 2/1, f 1 2 4 (no vertex 4), f 0 1 2, f 3 2
Mixed == File(<< [prefix |-> "#", args |-> << >>],
            V(0, 0, 0), V(1, 0, 0), V(0, 1, 0),
            [prefix |-> "vn", args |-> <<0, 0, 1>>],
            [prefix |-> "f", args |-> << <<"3", "/", "1">>, <<"1", "/", "1">>, <<"2", "/", "1">> >>],
            [prefix |-> "f", args |-> << <<"1">>, <<"2">>, <<"4">> >>],
            [prefix |-> "f", args |-> << <<"0">>, <<"1">>, <<"2">> >>],
            [prefix |-> "f", args |-> << <<"3">>, <<"2">> >>] >>)

Disks == {NoFile, Mixed}

\* ----------------------------------------------------- the program's runs

\* The globals as constructed, before main runs.
InitGlobals ==
    /\ pc = "init"
    /\ window = FALSE
    /\ renderer = FALSE
    /\ currentColor = Black
    /\ framebuffer = EmptyBuffer
    /\ cameraAngleY = 0
    /\ cameraAngleX = 0
    /\ cameraDistance = 5000
    /\ autoRotate = FALSE
    /\ vertices = <<>>
    /\ faces = <<>>
    /\ running = FALSE
    /\ exitCode = None
    /\ loaded = None
    /\ rendered = FALSE
    /\ presented = FALSE
    /\ transformedVertices = <<>>
    /\ drawn = <<>>
    /\ oob = FALSE
    /\ call = None

Init ==
    /\ InitGlobals
    /\ sdl \in SdlOutcomes
    /\ disk \in Disks

Next ==
    \/ init
    \/ MainCheck
    \/ MainLoad
    \/ MainFirstRender
    \/ AutoRotate
    \/ LoopExit
    \/ PollEmpty
    \/ PollQuit
    \/ PollOther
    \/ PollKeyDown

Spec == Init /\ [][Next]_vars

\* The run loop followed over the whole zoom range, on a mesh without vertices.
EmptyMesh == File(<< [prefix |-> "#", args |-> << >>] >>)

InitCamera ==
    /\ InitGlobals
    /\ sdl \in SdlOutcomes
    /\ disk \in {NoFile, EmptyMesh}

PollKeyDownFull == \E sym \in Keys : KeyDown(sym, TRUE)

AutoRotateFull == LoopTop(TRUE)

NextCamera ==
    \/ init
    \/ MainCheck
    \/ MainLoad
    \/ MainFirstRender
    \/ AutoRotateFull
    \/ LoopExit
    \/ PollEmpty
    \/ PollQuit
    \/ PollOther
    \/ PollKeyDownFull

SpecCamera == InitCamera /\ [][NextCamera]_vars

\* C1: in every state of the run loop the camera distance lies in [1.0, 10.0].
DistanceInRange ==
    pc \in {"loop", "poll"} => cameraDistance >= 1000 /\ cameraDistance <= 10000

\* The distance sits at a clamp after a zoom key was handled there.
DistanceAtMin == pc = "poll" /\ cameraDistance = 1000 /\ rendered

DistanceAtMax == pc = "poll" /\ cameraDistance = 10000 /\ rendered

\* ------------------------------------------------- line(), step by step

\* The globals as they are inside the run loop, for the calls studied alone.
InitCallGlobals ==
    /\ pc = "call"
    /\ sdl = "ok"
    /\ disk = NoFile
    /\ window = TRUE
    /\ renderer = TRUE
    /\ framebuffer = initFramebuffer(EmptyBuffer)
    /\ cameraAngleY = 785
    /\ cameraAngleX = 350
    /\ cameraDistance = 3000
    /\ autoRotate = FALSE
    /\ vertices = <<>>
    /\ faces = <<>>
    /\ running = TRUE
    /\ exitCode = None
    /\ rendered = FALSE
    /\ presented = FALSE
    /\ transformedVertices = <<>>
    /\ drawn = <<>>
    /\ oob = FALSE

\* Coordinates in half pixels whose rounding lies in -MaxCoord .. MaxCoord + 1.
HalfCoords == (-2 * MaxCoord) .. (2 * MaxCoord + 1)

\* Coordinates in half pixels far off the screen, as the perspective divide gives
\* for a vertex close to the plane of the camera.
FarCoords == {-FarCoord, FarCoord}

\* The endpoints under study: all pairs of near ones, and the pairs of far ones,
\* on the same side of the screen or on opposite sides.
LineEnds ==
    ((HalfCoords \X HalfCoords) \X (HalfCoords \X HalfCoords))
    \cup ((FarCoords \X {0, 3}) \X (FarCoords \X {0}))

\* line(start, end) was called and its prologue has run.
InitLine ==
    /\ InitCallGlobals
    /\ loaded = "ok"
    /\ currentColor = Yellow
    /\ \E ends \in LineEnds :
         LET start == [x |-> ends[1][1], y |-> ends[1][2], id |-> 0]
             end == [x |-> ends[2][1], y |-> ends[2][2], id |-> 1]
         IN call = [op |-> "line", start |-> start, end |-> end,
                    l |-> LineStart(start, end), calls |-> <<>>, done |-> FALSE,
                    trapped |-> FALSE]

\* One iteration of while (true): the pixel call, the exit test, the stepping.  An
\* iteration in which an int operation overflows is undefined: the build either
\* wraps the value or traps, which ends the program inside line().  A walk that
\* has overflowed is followed for MaxCalls pixel calls.
LineLoop ==
    /\ call.op = "line"
    /\ ~call.done
    /\ ~call.trapped
    /\ call.l.ub => Len(call.calls) < MaxCalls
    /\ framebuffer' = pixel(framebuffer, currentColor, call.l.x1, call.l.y1)
    /\ oob' = (oob \/ pixelOob(framebuffer, call.l.x1, call.l.y1))
    /\ \E next \in {IF LineAtEnd(call.l) THEN call.l ELSE LineIter(call.l)} :
       \E trap \in (IF next.ub /\ ~call.l.ub THEN {FALSE, TRUE} ELSE {FALSE}) :
          call' = [call EXCEPT !.calls = Append(@, <<call.l.x1, call.l.y1>>),
                               !.done = LineAtEnd(call.l),
                               !.l = next,
                               !.trapped = trap]
    /\ UNCHANGED <<pc, sdl, disk, window, renderer, currentColor, cameraAngleY, cameraAngleX,
                   cameraDistance, autoRotate, vertices, faces, running, exitCode, loaded,
                   rendered, presented, transformedVertices, drawn>>

NextLine == LineLoop

SpecLine == InitLine /\ [][NextLine]_vars

\* The rounded endpoints of the call under study.
LineP0 == <<Round(call.start.x), Round(call.start.y)>>

LineP1 == <<Round(call.end.x), Round(call.end.y)>>

LineSpan == Max(Abs(LineP1[1] - LineP0[1]), Abs(LineP1[2] - LineP0[2]))

\* The distance left from pixel call k to p1, in steps of at most 1 in x and in y.
LineLeft(k) ==
    Max(Abs(LineP1[1] - call.calls[k][1]), Abs(LineP1[2] - call.calls[k][2]))

\* C4: for every pair of endpoints line() ends after exactly max(|x1-x0|, |y1-y0|)
\* + 1 pixel calls, the first at p0, the last at p1, consecutive ones at most 1
\* apart in x and in y.  So a loop that has not ended has made at most
\* max(|x1-x0|, |y1-y0|) calls, call k is within max(|x1-x0|, |y1-y0|) + 1 - k steps
\* of p1, and the program does not end inside line().
LineContract ==
    /\ ~call.trapped
    /\ Len(call.calls) <= LineSpan + 1
    /\ ~call.done => Len(call.calls) <= LineSpan
    /\ call.calls # <<>> => call.calls[1] = LineP0
    /\ \A k \in 1..(Len(call.calls) - 1) :
          /\ Abs(call.calls[k + 1][1] - call.calls[k][1]) <= 1
          /\ Abs(call.calls[k + 1][2] - call.calls[k][2]) <= 1
    /\ \A k \in 1..Len(call.calls) : LineLeft(k) <= LineSpan + 1 - k
    /\ call.done => /\ Len(call.calls) = LineSpan + 1
                    /\ call.calls[Len(call.calls)] = LineP1
    /\ call.done /\ LineP0 = LineP1 => call.calls = <<LineP0>>

\* The contract holds of the endpoints for which 2 * err cannot overflow.
LineContractInRange == (LineSpan <= INT_MAX \div 2) => LineContract

\* The walk from (-900000000, 0) to (900000000, 0) on a build that wraps: 2 * err
\* overflowed in the first iteration and the second pixel call left the segment.
LineWalkedOff ==
    /\ call.l.ub
    /\ ~call.trapped
    /\ LineP0 = <<-900000000, 0>>
    /\ LineP1 = <<900000000, 0>>
    /\ Len(call.calls) = 2
    /\ call.calls[2] = <<-900000000, -1>>

\* A finished line that is neither axis-parallel nor diagonal, drawn right to left.
LineSteepDone ==
    /\ call.done
    /\ LineP1[1] < LineP0[1]
    /\ Abs(LineP1[2] - LineP0[2]) > Abs(LineP1[1] - LineP0[1])
    /\ LineP1[1] # LineP0[1]

\* --------------------------------------------------------- pixel() alone

\* The presets of the colour keys, and Color() itself.
Colors == {Black, Red, Green, Blue, Yellow, White, Cyan, Magenta}

\* Coordinates on both sides of each edge of the screen.
PixelXs == {-1, 0, 1, SCREEN_WIDTH - 1, SCREEN_WIDTH, SCREEN_WIDTH + 1}

PixelYs == {-1, 0, 1, SCREEN_HEIGHT - 1, SCREEN_HEIGHT}

\* Frame buffers a frame can be in when pixel is called: cleared, or partly drawn.
PixelBuffers ==
    { initFramebuffer(EmptyBuffer),
      Store(initFramebuffer(EmptyBuffer), 0, Red),
      Store(Store(Store(initFramebuffer(EmptyBuffer), 1, Green), SCREEN_WIDTH, Green),
            SCREEN_WIDTH * SCREEN_HEIGHT - 1, Green) }

InitPixel ==
    /\ InitCallGlobals
    /\ loaded = "ok"
    /\ currentColor \in Colors
    /\ \E x \in PixelXs, y \in PixelYs, fb \in PixelBuffers :
         call = [op |-> "pixel", x |-> x, y |-> y, before |-> fb, done |-> FALSE]

\* pixel(x, y) on the buffer call.before.
PixelCall ==
    /\ call.op = "pixel"
    /\ ~call.done
    /\ framebuffer' = pixel(call.before, currentColor, call.x, call.y)
    /\ oob' = pixelOob(call.before, call.x, call.y)
    /\ call' = [call EXCEPT !.done = TRUE]
    /\ UNCHANGED <<pc, sdl, disk, window, renderer, currentColor, cameraAngleY, cameraAngleX,
                   cameraDistance, autoRotate, vertices, faces, running, exitCode, loaded,
                   rendered, presented, transformedVertices, drawn>>

NextPixel == PixelCall

SpecPixel == InitPixel /\ [][NextPixel]_vars

\* The cells that hold something else than Color() before or after the call, the
\* cell the call is aimed at and its neighbours in the row-major order.
PixelProbe ==
    LET at == call.y * SCREEN_WIDTH + call.x
    IN (DOMAIN call.before.px \cup DOMAIN framebuffer.px
         \cup {at - 1, at, at + 1, at - SCREEN_WIDTH, at + SCREEN_WIDTH})
       \cap (0 .. (SCREEN_WIDTH * SCREEN_HEIGHT - 1))

\* C2: pixel(x, y) outside [0,800) x [0,600) changes no cell and indexes nothing;
\* inside, it sets cell y*800 + x to the current colour and changes no other cell.
PixelContract ==
    call.done =>
        /\ ~oob
        /\ framebuffer.size = call.before.size
        /\ DOMAIN framebuffer.px \subseteq 0 .. (SCREEN_WIDTH * SCREEN_HEIGHT - 1)
        /\ IF call.x < 0 \/ call.x >= 800 \/ call.y < 0 \/ call.y >= 600
           THEN \A i \in PixelProbe : Cell(framebuffer, i) = Cell(call.before, i)
           ELSE \A i \in PixelProbe :
                  Cell(framebuffer, i) = IF i = call.y * 800 + call.x
                                         THEN currentColor
                                         ELSE Cell(call.before, i)

\* A pixel call just outside the right edge, on a buffer that is partly drawn.
PixelOutsideDone ==
    /\ call.done
    /\ call.x = 800
    /\ call.y = 0
    /\ call.before.px # <<>>
    /\ currentColor = Red

\* -------------------------------------------------------- loadOBJ() alone
(***************************************************************************)
(* A well-formed file is written out from a description of its lines, and  *)
(* loadOBJ reads the text back.  An item of the description is a vertex    *)
(* [kind "v", at], a face [kind "f", refs] whose references are [p, t, n]  *)
(* with t and n 0 when absent, or a line of another kind.                  *)
(***************************************************************************)

\* The decimal numeral of n >= 0, as characters.
RECURSIVE Numeral(_)
Numeral(n) == IF n < 10 THEN <<Digits[n + 1]>> ELSE Numeral(n \div 10) \o <<Digits[(n % 10) + 1]>>

\* p, p/t or p/t/n.
RefWord(ref) ==
    Numeral(ref.p)
        \o (IF ref.t > 0 THEN <<"/">> \o Numeral(ref.t) ELSE <<>>)
        \o (IF ref.n > 0 THEN <<"/">> \o Numeral(ref.n) ELSE <<>>)

ItemLine(item) ==
    IF item.kind = "v" THEN V(item.at[1], item.at[2], item.at[3])
    ELSE IF item.kind = "f"
    THEN [prefix |-> "f", args |-> [k \in 1..Len(item.refs) |-> RefWord(item.refs[k])]]
    ELSE [prefix |-> item.kind, args |-> <<0, 0, 1>>]

FileOf(items) == File([k \in 1..Len(items) |-> ItemLine(items[k])])

\* References in each of the three forms, one of them with two digits.
Refs == { [p |-> 1, t |-> 0, n |-> 0], [p |-> 2, t |-> 5, n |-> 0],
          [p |-> 10, t |-> 5, n |-> 6] }

Items ==
    { [kind |-> "v", at |-> <<0, 0, 0>>], [kind |-> "v", at |-> <<1, 0, 2>>],
      [kind |-> "vn"], [kind |-> "#"],
      [kind |-> "f", refs |-> << [p |-> 3, t |-> 0, n |-> 0], [p |-> 12, t |-> 4, n |-> 0],
                                 [p |-> 1, t |-> 1, n |-> 1], [p |-> 2, t |-> 0, n |-> 0] >>] }
    \cup { [kind |-> "f", refs |-> <<a, b, c>>] : a \in Refs, b \in Refs, c \in Refs }

ItemLists == UNION { [1..n -> Items] : n \in 0..MaxLines }

InitLoad ==
    /\ InitCallGlobals
    /\ loaded = None
    /\ currentColor = Yellow
    /\ \E items \in ItemLists :
         call = [op |-> "load", items |-> items, file |-> FileOf(items), done |-> FALSE]

\* loadOBJ("model.obj", vertices, faces) on the file written from call.items.
LoadCall ==
    /\ call.op = "load"
    /\ ~call.done
    /\ \E r \in {loadOBJ(call.file, vertices, faces)} :
         /\ vertices' = r.vertices
         /\ faces' = r.faces
         /\ loaded' = IF r.ok THEN "ok" ELSE "failed"
    /\ call' = [call EXCEPT !.done = TRUE]
    /\ UNCHANGED <<pc, sdl, disk, window, renderer, currentColor, framebuffer, cameraAngleY,
                   cameraAngleX, cameraDistance, autoRotate, running, exitCode, rendered,
                   presented, transformedVertices, drawn, oob>>

NextLoad == LoadCall

SpecLoad == InitLoad /\ [][NextLoad]_vars

\* The items of one kind, in file order.
RECURSIVE ItemsOf(_, _)
ItemsOf(kind, items) ==
    IF items = <<>> THEN <<>>
    ELSE (IF Head(items).kind = kind THEN <<Head(items)>> ELSE <<>>) \o ItemsOf(kind, Tail(items))

\* C7: on a well-formed file loadOBJ yields one vertex per v line and one face per f
\* line, in file order, each reference p, p/t or p/t/n stored with position index
\* p - 1 in the order of the line; lines with another prefix add nothing.
LoadContract ==
    call.done =>
        LET vs == ItemsOf("v", call.items)
            fs == ItemsOf("f", call.items)
        IN /\ loaded = "ok"
           /\ Len(vertices) = Len(vs)
           /\ \A k \in 1..Len(vs) :
                 vertices[k] = [x |-> vs[k].at[1], y |-> vs[k].at[2], z |-> vs[k].at[3]]
           /\ Len(faces) = Len(fs)
           /\ \A k \in 1..Len(fs) :
                 /\ Len(faces[k]) = Len(fs[k].refs)
                 /\ \A j \in 1..Len(fs[k].refs) : faces[k][j][1] = fs[k].refs[j].p - 1

\* A loaded file with a face of mixed reference forms after a line that is ignored.
LoadMixedDone ==
    /\ call.done
    /\ Len(call.items) = 2
    /\ call.items[1].kind = "vn"
    /\ call.items[2].kind = "f"
    /\ Len(call.items[2].refs) = 3
    /\ call.items[2].refs[1].p = 10
    /\ call.items[2].refs[2].p = 2
    /\ call.items[2].refs[3].p = 1
    /\ Len(faces) = 1

\* --------------------------------------------------------- render() alone

\* NumVerts vertices in a row.
RenderVertices == [i \in 1..NumVerts |-> [x |-> i, y |-> 0, z |-> 0]]

\* Their transformed positions, all different, the first one off screen.
RenderLayout == [i \in 1..NumVerts |-> [x |-> 2 * i - 5, y |-> i, id |-> i - 1]]

\* A face from its position indices.
FaceOf(ps) == [k \in 1..Len(ps) |-> <<ps[k], 0, 0>>]

RefIndices == 0 .. NumVerts

GoodFace == FaceOf(<<0, 1, 2>>)

BadFace == FaceOf(<<2, -1, 0>>)

\* The meshes with face f: f alone, or between a face with reference -1 (written 0
\* in the file) and a face that is in range.
MeshesWith(f) == { <<f>>, <<BadFace, f, GoodFace>> }

InitRender ==
    /\ pc = "call"
    /\ sdl = "ok"
    /\ disk = NoFile
    /\ window = TRUE
    /\ renderer = TRUE
    /\ framebuffer = Store(initFramebuffer(EmptyBuffer), 0, Red)
    /\ currentColor = Yellow
    /\ cameraAngleY = 785
    /\ cameraAngleX = 350
    /\ cameraDistance = 3000
    /\ autoRotate = FALSE
    /\ vertices = RenderVertices
    /\ faces = <<>>
    /\ running = TRUE
    /\ exitCode = None
    /\ loaded = "ok"
    /\ rendered = FALSE
    /\ presented = FALSE
    /\ transformedVertices = <<>>
    /\ drawn = <<>>
    /\ oob = FALSE
    /\ call = [op |-> "render", tv |-> RenderLayout, done |-> FALSE]

\* render(vertices, faces) on a mesh around a face of 2 to MaxRefs references, the
\* transform yielding call.tv.
RenderCall ==
    /\ call.op = "render"
    /\ ~call.done
    /\ \E n \in 2..MaxRefs : \E ps \in [1..n -> RefIndices] : \E mesh \in MeshesWith(FaceOf(ps)) :
         /\ faces' = mesh
         /\ \E g \in {render(framebuffer, currentColor, mesh, call.tv)} :
              /\ framebuffer' = g.fb
              /\ drawn' = g.drawn
              /\ oob' = g.oob
    /\ transformedVertices' = call.tv
    /\ rendered' = TRUE
    /\ call' = [call EXCEPT !.done = TRUE]
    /\ UNCHANGED <<pc, sdl, disk, window, renderer, currentColor, cameraAngleY, cameraAngleX,
                   cameraDistance, autoRotate, vertices, running, exitCode, loaded,
                   presented>>

NextRender == RenderCall

SpecRender == InitRender /\ [][NextRender]_vars

\* The segments of the outline of the triangle (a, b, c), as index pairs, in order.
Outline(a, b, c) == << <<a, b>>, <<b, c>>, <<c, a>> >>

InRange(face) == \A k \in 1..Len(face) : face[k][1] >= 0 /\ face[k][1] < Len(vertices)

RECURSIVE Concat(_)
Concat(seqs) == IF seqs = <<>> THEN <<>> ELSE Head(seqs) \o Concat(Tail(seqs))

\* The segments C3 gives a face of 3 or 4 references.
TriQuadSegments(face) ==
    IF Len(face) = 4
    THEN << <<face[1][1], face[2][1]>>, <<face[2][1], face[3][1]>>, <<face[3][1], face[1][1]>>,
            <<face[1][1], face[3][1]>>, <<face[3][1], face[4][1]>>, <<face[4][1], face[1][1]>> >>
    ELSE Outline(face[1][1], face[2][1], face[3][1])

\* C3: a pass over faces of 3 or 4 in-range references draws, face by face, the
\* outline (v0,v1,v2) and, for 4 references, then (v0,v2,v3): for a quad the six
\* segments v0-v1, v1-v2, v2-v0, v0-v2, v2-v3, v3-v0 and no others.
QuadTwoOutlines ==
    (call.done /\ \A k \in 1..Len(faces) : Len(faces[k]) \in {3, 4} /\ InRange(faces[k]))
        => drawn = Concat([k \in 1..Len(faces) |-> TriQuadSegments(faces[k])])

\* A pass that drew a quad of four different vertices.
QuadOutlinedDone ==
    /\ call.done
    /\ faces = <<FaceOf(<<3, 1, 2, 0>>)>>
    /\ Len(drawn) = 6

\* The segments whose both ends are references of the face.
SegmentsWithin(face, segs) ==
    \A s \in 1..Len(segs) :
        /\ \E k \in 1..Len(face) : face[k][1] = segs[s][1]
        /\ \E k \in 1..Len(face) : face[k][1] = segs[s][2]

\* What a face of the pass contributes to drawn: nothing if it has fewer than 3
\* references or one out of range, else what it draws in a pass of its own.
Contribution(face) ==
    IF Len(face) < 3 \/ ~InRange(face) THEN <<>>
    ELSE render(framebuffer, currentColor, <<face>>, transformedVertices).drawn

\* C5: a face with a reference outside [0, vertexCount) draws nothing and no read
\* of transformedVertices is out of range, while every other face of at least 3
\* references is drawn in the same pass, starting with the outline (v0,v1,v2).
BadFaceSkipped ==
    call.done =>
        /\ ~oob
        /\ drawn = Concat([k \in 1..Len(faces) |-> Contribution(faces[k])])
        /\ \A k \in 1..Len(faces) :
              (Len(faces[k]) >= 3 /\ InRange(faces[k])) =>
                  /\ Len(Contribution(faces[k])) >= 3
                  /\ SubSeq(Contribution(faces[k]), 1, 3)
                        = Outline(faces[k][1][1], faces[k][2][1], faces[k][3][1])
        /\ \A s \in 1..Len(drawn) :
              /\ drawn[s][1] >= 0 /\ drawn[s][1] < Len(vertices)
              /\ drawn[s][2] >= 0 /\ drawn[s][2] < Len(vertices)

\* A pass over a face with reference -1, a face whose fifth reference is past the
\* last vertex, and a triangle in range: only the triangle is drawn.
BadBadGoodDone ==
    /\ call.done
    /\ faces = <<BadFace, FaceOf(<<0, 1, 2, 3, NumVerts>>), GoodFace>>
    /\ drawn = Outline(0, 1, 2)

\* C6 as stated: a face of 5 or more in-range references is drawn like a quad from
\* its first four vertices; v3 is an end of some segment.
FiveUsesFirstFour ==
    (call.done /\ Len(faces) = 1 /\ Len(faces[1]) >= 5 /\ InRange(faces[1]))
        => /\ \A j \in 1..4 : \E s \in 1..Len(drawn) :
                 drawn[s][1] = faces[1][j][1] \/ drawn[s][2] = faces[1][j][1]
           /\ SegmentsWithin(SubSeq(faces[1], 1, 4), drawn)

\* C6 amended: a face of 5 or more in-range references is drawn from its first
\* three vertices only: the one outline (v0,v1,v2), so that no vertex at position 3
\* or later is an end of a segment unless it is also one of the first three.
FiveUsesFirstThree ==
    (call.done /\ \A k \in 1..Len(faces) : Len(faces[k]) >= 5 /\ InRange(faces[k]))
        => drawn = Concat([k \in 1..Len(faces) |->
                             Outline(faces[k][1][1], faces[k][2][1], faces[k][3][1])])

\* A pass over one face of five in-range references, four of them different vertices.
FiveRefsDone ==
    /\ call.done
    /\ faces = <<FaceOf(<<0, 1, 2, 3, 0>>)>>
    /\ drawn # <<>>

\* ------------------------------------------------ claims on the run loop

\* C8: no render pass and no presentation happens unless the window, the renderer
\* and the mesh load all succeeded; a failed load leaves vertices and faces empty;
\* main then returns non-zero.
NoRenderUnlessReady ==
    /\ (rendered \/ presented) =>
          /\ sdl = "ok" /\ window /\ renderer
          /\ disk.exists /\ loaded = "ok"
    /\ loaded = "failed" => vertices = <<>> /\ faces = <<>>
    /\ (pc = "done" /\ (sdl # "ok" \/ ~disk.exists)) =>
          /\ exitCode # 0
          /\ framebuffer.px = <<>>
          /\ drawn = <<>>
          /\ transformedVertices = <<>>

\* main has returned after the display came up and model.obj could not be opened.
LoadFailedExit ==
    /\ pc = "done"
    /\ sdl = "ok"
    /\ loaded = "failed"
    /\ exitCode = -1

\* The cells the pixel calls of the segments segs of transformed vertices tv reach.
PassCells(segs, tv) ==
    UNION { { c[2] * SCREEN_WIDTH + c[1] :
                c \in { calls[k] : k \in { j \in 1..Len(calls) :
                                            InBounds(calls[j][1], calls[j][2]) } } } :
            calls \in { LineCalls(LineStart(tv[segs[s][1] + 1], tv[segs[s][2] + 1])) :
                          s \in 1..Len(segs) } }

\* C10: from the first render pass on, every cell of the frame buffer holds opaque
\* black or the current colour, and every cell that is not black lies on a segment
\* of the last pass: nothing of an earlier frame or colour survives.
FrameOfLastPassOnly ==
    pc \in {"loop", "poll"} =>
        \A i \in DOMAIN framebuffer.px :
            /\ i >= 0 /\ i < SCREEN_WIDTH * SCREEN_HEIGHT
            /\ framebuffer.px[i] = currentColor
            /\ framebuffer.px[i].a = 255
            /\ i \in PassCells(drawn, transformedVertices)

\* A frame rendered in red, after the initial yellow one, away from the reset view.
RedFrameAfterTurn ==
    /\ pc = "poll"
    /\ rendered
    /\ currentColor = Red
    /\ cameraAngleY # 785
    /\ framebuffer.px # <<>>

\* The run loop under the scheduling the code has: main is one thread that keeps
\* running, and a poll of the event queue finds it empty after finitely many
\* events.
SpecLive == Init /\ [][Next]_vars /\ WF_vars(PollEmpty) /\ WF_vars(LoopExit)

Stopping == pc \in {"loop", "poll"} /\ ~running

\* C9: once a quit event or an escape key-down is handled the loop stops: running
\* stays false, the events still polled are handled, no further iteration (no
\* auto-rotation step) starts, and main returns 0; the escape key renders nothing.
QuitEndsLoop ==
    /\ [][PollQuit => ~running']_vars
    /\ [][KeyDown("ESCAPE", FALSE) => ~running' /\ ~rendered' /\ ~presented'
                                        /\ framebuffer' = framebuffer]_vars
    /\ [][Stopping => ~running' /\ ~AutoRotate]_vars
    /\ [][(Stopping /\ pc = "loop" /\ pc' # pc) => pc' = "done" /\ exitCode' = 0]_vars
    /\ Stopping ~> (pc = "done" /\ exitCode = 0)

\* main has returned 0 after the loop was stopped while auto-rotation was on.
StoppedWhileRotating ==
    /\ pc = "done"
    /\ exitCode = 0
    /\ ~running
    /\ autoRotate

====
